---- MODULE Spec2Model ----
(***************************************************************************)
(* Model of src/src/server/index.ts: a radio server that holds one         *)
(* PlaybackState, advances it from a periodic timer, and pushes snapshots  *)
(* of it to the connected socket.io clients.                               *)
(*                                                                         *)
(* Time.  `now` is Date.now(), in milliseconds.  Every handler of the      *)
(* program runs to completion on the single JavaScript thread; the model   *)
(* gives a handler one reading of the clock (the handler's Date.now()      *)
(* calls are microseconds apart).  The clock moves between handlers, in    *)
(* steps of Quantum milliseconds.                                          *)
(*                                                                         *)
(* Seconds.  currentPosition and the track durations are JavaScript        *)
(* numbers holding seconds.  The model holds a number of seconds as the    *)
(* integer count of 1/Milli seconds.  (x / 1000) * 1000 is not always x in *)
(* IEEE doubles, but Date.now() - (x / 1000) * 1000 is Date.now() - x      *)
(* exactly for every epoch-sized Date.now() and every x below 2^22,        *)
(* because the error is far below the spacing of doubles near 1.7e12; so   *)
(* the integer arithmetic below is the arithmetic the program performs.    *)
(***************************************************************************)
EXTENDS Integers, Sequences, FiniteSets, TLC

VARIABLES
    playbackState,   \* the module-level PlaybackState object
    now,             \* Date.now(), milliseconds
    resolved,        \* playlist entries initializeTrackDurations has done
    armed,           \* setInterval and io.on("connection") have been called
    timer,           \* the time the interval timer is next due
    connected,       \* the sockets currently connected
    outbox,          \* per socket, the events the last handler emitted to it
    statusResponse,  \* the body of the last GET /status response
    last,            \* history: the last step taken and the state before it
    pause,           \* history: the position and time of the last pause
    failed,          \* history: the tracks whose duration lookup failed
    expiries,        \* history: the entries that expired, most recent last
    latest,          \* history: per socket, the last event delivered to it
    played           \* history: ms the track on air has spent playing,
                     \* kept only by the specification PlayedSpec

vars == <<playbackState, now, resolved, armed, timer, connected, outbox,
          statusResponse, last, pause, failed, expiries, latest, played>>

----------------------------------------------------------------------------
(* Program constants *)

PLAYLIST == <<"1.mp3", "2.mp3", "3.mp3">>

TickPeriod == 100

DefaultDuration == 2

MsPerSecond == 1000

(* Seconds are held as integer counts of 1/Milli second. *)
Milli == 1000

----------------------------------------------------------------------------
(* Bounds of the model *)

Quantum == 250

MaxTime == 3000

MaxLate == 400

MaxObservers == 2

Observers == 1 .. MaxObservers

(* The durations music-metadata may report, in 1/Milli seconds. *)
DurationChoices == {300}

(* What one getMP3Duration call can run into. *)
Outcomes ==
    [kind : {"ok"}, duration : DurationChoices]
        \cup {[kind |-> "noDuration", duration |-> 0],
              [kind |-> "error", duration |-> 0]}

----------------------------------------------------------------------------
(* Pure helpers *)

(* (ms) / 1000 : milliseconds to seconds. *)
SecondsOfMs(ms) == (ms * Milli) \div MsPerSecond

(* (s) * 1000 : seconds to milliseconds. *)
MsOfSeconds(s) == (s * MsPerSecond) \div Milli

(* PLAYLIST[i], with the program's 0-based index. *)
TrackAt(i) == PLAYLIST[i + 1]

(* Mutant: the index stops at the last entry instead of wrapping. *)
NextIndex_Clamp(i) == IF i + 1 < Len(PLAYLIST) THEN i + 1 ELSE i

(* (currentTrackIndex + 1) % PLAYLIST.length *)
NextIndex(i) == (i + 1) % Len(PLAYLIST)

(* Mutant: a failed lookup yields 0 instead of the default. *)
getMP3Duration_ZeroOnFailure(outcome) ==
    IF outcome.kind = "ok" THEN outcome.duration ELSE 0

(* getMP3Duration: the duration of the metadata, or 2 when it is missing    *)
(* (undefined or 0) or when fetching or parsing threw.                      *)
getMP3Duration(outcome) ==
    IF outcome.kind = "ok" /\ outcome.duration # 0
    THEN outcome.duration
    ELSE DefaultDuration * Milli

(* trackDurations[track] = duration *)
SetDuration(td, track, d) ==
    [t \in DOMAIN td \cup {track} |-> IF t = track THEN d ELSE td[t]]

(* trackDurations[currentTrack] || 2 *)
DurationOf(td, track) ==
    IF track \in DOMAIN td /\ td[track] # 0
    THEN td[track]
    ELSE DefaultDuration * Milli

(* (Date.now() - startTime) / 1000 *)
Elapsed(t, startTime) == SecondsOfMs(t - startTime)

(* Mutant: > in place of >=. *)
Expired_Strict(pos, dur) == pos > dur

(* currentPosition >= currentTrackDuration *)
Expired(pos, dur) == pos >= dur

(* Mutant: the position, in seconds, is subtracted as if it were in ms. *)
ResumeOrigin_SecondsAsMs(t, pos) == t - (pos \div Milli)

(* Date.now() - currentPosition * 1000 *)
ResumeOrigin(t, pos) == t - MsOfSeconds(pos)

(* Mutant: the snapshot carries the time of sending as startTime. *)
Snapshot_ServerTimeAsStart(ps, t) ==
    [currentTrack      |-> ps.currentTrack,
     isPlaying         |-> ps.isPlaying,
     startTime         |-> t,
     currentPosition   |-> ps.currentPosition,
     playlist          |-> ps.playlist,
     currentTrackIndex |-> ps.currentTrackIndex,
     trackDurations    |-> ps.trackDurations,
     serverTime        |-> t]

(* { ...playbackState, serverTime: Date.now() } *)
Snapshot(ps, t) ==
    [currentTrack      |-> ps.currentTrack,
     isPlaying         |-> ps.isPlaying,
     startTime         |-> ps.startTime,
     currentPosition   |-> ps.currentPosition,
     playlist          |-> ps.playlist,
     currentTrackIndex |-> ps.currentTrackIndex,
     trackDurations    |-> ps.trackDurations,
     serverTime        |-> t]

NoEmit == [o \in Observers |-> << >>]

(* Mutant: socket.emit in place of io.emit, one socket gets the event. *)
Broadcast_OneSocket(conn, snap) ==
    [o \in Observers |->
        IF conn # {} /\ o = (CHOOSE c \in conn : TRUE) THEN <<snap>> ELSE << >>]

(* io.emit("playbackState", snap): one event to every connected socket. *)
Broadcast(conn, snap) ==
    [o \in Observers |-> IF o \in conn THEN <<snap>> ELSE << >>]

(* Mutant: io.emit in place of socket.emit, every socket gets the event. *)
SendTo_Everyone(socket, snap) ==
    [o \in Observers |->
        IF o \in connected \cup {socket} THEN <<snap>> ELSE << >>]

(* socket.emit("playbackState", snap): one event to that socket. *)
SendTo(socket, snap) ==
    [o \in Observers |-> IF o = socket THEN <<snap>> ELSE << >>]

NoResponse == [status |-> "none"]

(* Mutant: the status reports the position the clock gives, not the stored *)
(* one.                                                                    *)
StatusBody_Recomputed(ps, t) ==
    [status          |-> "ok",
     currentTrack    |-> ps.currentTrack,
     isPlaying       |-> ps.isPlaying,
     currentPosition |-> IF ps.isPlaying
                         THEN Elapsed(t, ps.startTime)
                         ELSE ps.currentPosition,
     serverTime      |-> t]

(* The body res.json sends from GET /status. *)
StatusBody(ps, t) ==
    [status          |-> "ok",
     currentTrack    |-> ps.currentTrack,
     isPlaying       |-> ps.isPlaying,
     currentPosition |-> ps.currentPosition,
     serverTime      |-> t]

(* Mutant: the new origin is the old one plus the duration of the track.   *)
AdvanceTrack_KeepOrigin(ps, t) ==
    [ps EXCEPT !.currentTrackIndex = NextIndex(ps.currentTrackIndex),
               !.currentTrack = TrackAt(NextIndex(ps.currentTrackIndex)),
               !.startTime = ps.startTime + MsOfSeconds(
                                 DurationOf(ps.trackDurations, ps.currentTrack)),
               !.currentPosition = 0]

(* Mutant: currentTrack is read with the index of the track that ended. *)
AdvanceTrack_StaleTrack(ps, t) ==
    [ps EXCEPT !.currentTrackIndex = NextIndex(ps.currentTrackIndex),
               !.currentTrack = TrackAt(ps.currentTrackIndex),
               !.startTime = t,
               !.currentPosition = 0]

(* The body of the if in updatePlaybackState: move to the next track. *)
AdvanceTrack(ps, t) ==
    [ps EXCEPT !.currentTrackIndex = NextIndex(ps.currentTrackIndex),
               !.currentTrack = TrackAt(NextIndex(ps.currentTrackIndex)),
               !.startTime = t,
               !.currentPosition = 0]

(* Mutant: the position is accumulated, one period per tick. *)
TickPosition_Accumulated(ps, t) == ps.currentPosition + SecondsOfMs(TickPeriod)

(* The position updatePlaybackState stores before it tests for expiry. *)
TickPosition(ps, t) == Elapsed(t, ps.startTime)

(* Whether a call of updatePlaybackState at time t switches track. *)
Transitioned(ps, t) ==
    /\ ps.isPlaying
    /\ Expired(TickPosition(ps, t),
               DurationOf(ps.trackDurations, ps.currentTrack))

(* Mutant: the isPlaying guard is missing. *)
updatePlaybackState_NoGuard(ps, t) ==
    IF Expired(TickPosition(ps, t), DurationOf(ps.trackDurations, ps.currentTrack))
    THEN AdvanceTrack([ps EXCEPT !.currentPosition = TickPosition(ps, t)], t)
    ELSE [ps EXCEPT !.currentPosition = TickPosition(ps, t)]

(* Mutant: a tick that finds the track running moves the origin as well. *)
updatePlaybackState_Rebase(ps, t) ==
    IF ~ps.isPlaying
    THEN ps
    ELSE IF Transitioned(ps, t)
         THEN AdvanceTrack([ps EXCEPT !.currentPosition = TickPosition(ps, t)], t)
         ELSE [ps EXCEPT !.currentPosition = TickPosition(ps, t),
                         !.startTime = t]

(* The PlaybackState a call of updatePlaybackState at time t leaves. *)
updatePlaybackState(ps, t) ==
    IF ~ps.isPlaying
    THEN ps
    ELSE IF Transitioned(ps, t)
         THEN AdvanceTrack([ps EXCEPT !.currentPosition = TickPosition(ps, t)], t)
         ELSE [ps EXCEPT !.currentPosition = TickPosition(ps, t)]

(* Mutant: resuming restarts the track. *)
togglePlay_Restart(ps, t) ==
    IF ~ps.isPlaying
    THEN [ps EXCEPT !.isPlaying = TRUE, !.startTime = t, !.currentPosition = 0]
    ELSE [ps EXCEPT !.isPlaying = FALSE]

(* Mutant: pausing refreshes the position from the clock. *)
togglePlay_Refresh(ps, t) ==
    IF ~ps.isPlaying
    THEN [ps EXCEPT !.isPlaying = TRUE,
                    !.startTime = ResumeOrigin(t, ps.currentPosition)]
    ELSE [ps EXCEPT !.isPlaying = FALSE,
                    !.currentPosition = Elapsed(t, ps.startTime)]

(* The PlaybackState the togglePlay handler leaves at time t. *)
togglePlay(ps, t) ==
    IF ~ps.isPlaying
    THEN [ps EXCEPT !.isPlaying = TRUE,
                    !.startTime = ResumeOrigin(t, ps.currentPosition)]
    ELSE [ps EXCEPT !.isPlaying = FALSE]

(* The last Len(PLAYLIST) entries of the expiry history. *)
Window(s) ==
    IF Len(s) > Len(PLAYLIST) THEN SubSeq(s, 2, Len(s)) ELSE s

(* History of a step: the operation, its argument, the PlaybackState before *)
(* it, and for a togglePlay that directly follows another togglePlay, the   *)
(* PlaybackState before the pair.                                           *)
Step(op, arg) ==
    [op    |-> op,
     arg   |-> arg,
     pre   |-> playbackState,
     played |-> played,
     twice |-> (op = "toggle" /\ last.op = "toggle"),
     base  |-> IF op = "toggle" /\ last.op = "toggle"
               THEN last.pre
               ELSE playbackState]

NoPause == [pos |-> -1, at |-> -1, resumed |-> FALSE]

(* The value of played in the specifications that do not keep it. *)
NotTracked == -1

NoSnapshot == [isPlaying |-> FALSE, startTime |-> -1]

(* What the history keeps of a delivered snapshot. *)
Seen(snap) ==
    [currentTrack      |-> snap.currentTrack,
     currentTrackIndex |-> snap.currentTrackIndex,
     isPlaying         |-> snap.isPlaying,
     startTime         |-> snap.startTime]

(* Events are delivered in the order they are emitted: the last event a     *)
(* socket has received is the last one emitted to it.                       *)
Deliver(lat, out) ==
    [o \in Observers |->
        IF out[o] = << >> THEN lat[o] ELSE Seen(out[o][Len(out[o])])]

----------------------------------------------------------------------------
(* The state after the module has been loaded *)

InitState ==
    /\ now = 0
    /\ playbackState =
           [currentTrack      |-> TrackAt(0),
            isPlaying         |-> TRUE,
            startTime         |-> 0,
            currentPosition   |-> 0,
            playlist          |-> PLAYLIST,
            currentTrackIndex |-> 0,
            trackDurations    |-> << >>]
    /\ resolved = 0
    /\ armed = FALSE
    /\ timer = 0
    /\ connected = {}
    /\ outbox = NoEmit
    /\ statusResponse = NoResponse
    /\ last = [op |-> "load", arg |-> 0, pre |-> playbackState,
               played |-> played, twice |-> FALSE, base |-> playbackState]
    /\ pause = NoPause
    /\ failed = {}
    /\ expiries = << >>
    /\ latest = [o \in Observers |-> NoSnapshot]

Init == played = NotTracked /\ InitState

(* The same start, with the playing time of the track on air recorded. *)
InitPlayed == played = 0 /\ InitState

----------------------------------------------------------------------------
(* Actions *)

(* The clock moves on.  Once the interval timer is armed it fires at most   *)
(* MaxLate after it is due, so the clock cannot pass timer + MaxLate with   *)
(* the callback still pending.                                              *)
Advance ==
    /\ now + Quantum <= MaxTime
    /\ armed => now + Quantum <= timer + MaxLate
    /\ now' = now + Quantum
    /\ outbox' = NoEmit
    /\ statusResponse' = NoResponse
    /\ last' = Step("advance", 0)
    /\ pause' = IF playbackState.isPlaying THEN NoPause ELSE pause
    /\ UNCHANGED <<playbackState, resolved, armed, timer, connected,
                   failed, expiries>>
    /\ played' = IF played # NotTracked /\ playbackState.isPlaying
                 THEN played + Quantum
                 ELSE played
    /\ UNCHANGED latest

(* One iteration of the loop of initializeTrackDurations. *)
ResolveDuration(outcome) ==
    /\ ~armed
    /\ resolved < Len(PLAYLIST)
    /\ playbackState' =
           [playbackState EXCEPT !.trackDurations =
               SetDuration(@, TrackAt(resolved), getMP3Duration(outcome))]
    /\ resolved' = resolved + 1
    /\ outbox' = NoEmit
    /\ statusResponse' = NoResponse
    /\ last' = Step("resolve", outcome.kind)
    /\ failed' = IF outcome.kind = "ok"
                 THEN failed
                 ELSE failed \cup {TrackAt(resolved)}
    /\ UNCHANGED <<now, armed, timer, connected, pause, expiries>>
    /\ UNCHANGED <<latest, played>>

(* Mutant: the await of initializeTrackDurations is missing. *)
StartServer_NoAwait ==
    /\ ~armed
    /\ armed' = TRUE
    /\ timer' = now + TickPeriod
    /\ outbox' = NoEmit
    /\ statusResponse' = NoResponse
    /\ last' = Step("start", 0)
    /\ UNCHANGED <<playbackState, now, resolved, connected, pause, failed, expiries>>
    /\ UNCHANGED <<latest, played>>

(* startServer after the await: setInterval, io.on, httpServer.listen. *)
StartServer ==
    /\ ~armed
    /\ resolved = Len(PLAYLIST)
    /\ armed' = TRUE
    /\ timer' = now + TickPeriod
    /\ outbox' = NoEmit
    /\ statusResponse' = NoResponse
    /\ last' = Step("start", 0)
    /\ UNCHANGED <<playbackState, now, resolved, connected, pause, failed, expiries>>
    /\ UNCHANGED <<latest, played>>

(* The interval timer fires: updatePlaybackState(). *)
Tick ==
    /\ armed
    /\ now >= timer
    /\ playbackState' = updatePlaybackState(playbackState, now)
    /\ outbox' = IF Transitioned(playbackState, now)
                 THEN Broadcast(connected, Snapshot(playbackState', now))
                 ELSE NoEmit
    /\ expiries' = IF Transitioned(playbackState, now)
                   THEN Window(Append(expiries,
                            [index |-> playbackState.currentTrackIndex,
                             track |-> playbackState.currentTrack]))
                   ELSE expiries
    /\ timer' = now + TickPeriod
    /\ statusResponse' = NoResponse
    /\ last' = Step("tick", 0)
    /\ UNCHANGED <<now, resolved, armed, connected, pause, failed>>
    /\ latest' = Deliver(latest, outbox')
    /\ played' = IF played # NotTracked /\ Transitioned(playbackState, now)
                 THEN 0
                 ELSE played

(* A client connects: handleSocketConnection(socket). *)
Connect(socket) ==
    /\ armed
    /\ socket \notin connected
    /\ connected' = connected \cup {socket}
    /\ outbox' = SendTo(socket, Snapshot(playbackState, now))
    /\ statusResponse' = NoResponse
    /\ last' = Step("connect", socket)
    /\ UNCHANGED <<playbackState, now, resolved, armed, timer, pause,
                   failed, expiries>>
    /\ latest' = Deliver(latest, outbox')
    /\ UNCHANGED played

(* A connected client sends togglePlay. *)
TogglePlay(socket) ==
    /\ armed
    /\ socket \in connected
    /\ playbackState' = togglePlay(playbackState, now)
    /\ outbox' = Broadcast(connected, Snapshot(playbackState', now))
    /\ pause' = IF playbackState.isPlaying
                THEN [pos |-> playbackState.currentPosition, at |-> now,
                      resumed |-> FALSE]
                ELSE [pause EXCEPT !.resumed = TRUE]
    /\ statusResponse' = NoResponse
    /\ last' = Step("toggle", socket)
    /\ UNCHANGED <<now, resolved, armed, timer, connected, failed, expiries>>
    /\ latest' = Deliver(latest, outbox')
    /\ UNCHANGED played

(* A client disconnects: the handler only logs. *)
Disconnect(socket) ==
    /\ socket \in connected
    /\ connected' = connected \ {socket}
    /\ outbox' = NoEmit
    /\ statusResponse' = NoResponse
    /\ last' = Step("disconnect", socket)
    /\ UNCHANGED <<playbackState, now, resolved, armed, timer, pause,
                   failed, expiries>>
    /\ latest' = [latest EXCEPT ![socket] = NoSnapshot]
    /\ UNCHANGED played

(* GET /status, served once httpServer.listen has been called. *)
Status ==
    /\ armed
    /\ statusResponse' = StatusBody(playbackState, now)
    /\ outbox' = NoEmit
    /\ last' = Step("status", 0)
    /\ UNCHANGED <<playbackState, now, resolved, armed, timer, connected,
                   pause, failed, expiries>>
    /\ UNCHANGED <<latest, played>>

Next ==
    \/ Advance
    \/ \E outcome \in Outcomes : ResolveDuration(outcome)
    \/ StartServer
    \/ Tick
    \/ \E socket \in Observers : Connect(socket)
    \/ \E socket \in Observers : TogglePlay(socket)
    \/ \E socket \in Observers : Disconnect(socket)
    \/ Status

Spec == Init /\ [][Next]_vars

PlayedSpec == InitPlayed /\ [][Next]_vars

----------------------------------------------------------------------------
(* The program running for ever.                                            *)
(*                                                                          *)
(* The same handlers, without the histories of the steps (only expiries is  *)
(* kept), and with a clock that does not end at MaxTime.  The program reads *)
(* the clock only in differences with startTime, and the timer only         *)
(* compares it with its due time, so time is measured from the present: a   *)
(* step of the clock moves startTime and the due time of the timer back by  *)
(* Quantum and leaves now as it is.  MaxTime bounds now - startTime, that   *)
(* is the length of startup and of a pause; while the armed server is       *)
(* playing the timer bounds it.                                             *)

Histories == <<last, pause, failed, latest, played>>

LiveAdvance ==
    /\ armed => now + Quantum <= timer + MaxLate
    /\ \/ armed /\ playbackState.isPlaying
       \/ now + Quantum - playbackState.startTime <= MaxTime
    /\ now' = now
    /\ timer' = IF armed THEN timer - Quantum ELSE timer
    /\ playbackState' = [playbackState EXCEPT !.startTime = @ - Quantum]
    /\ outbox' = NoEmit
    /\ statusResponse' = NoResponse
    /\ UNCHANGED <<resolved, armed, connected, expiries>>
    /\ UNCHANGED Histories

LiveResolveDuration(outcome) ==
    /\ ~armed
    /\ resolved < Len(PLAYLIST)
    /\ playbackState' =
           [playbackState EXCEPT !.trackDurations =
               SetDuration(@, TrackAt(resolved), getMP3Duration(outcome))]
    /\ resolved' = resolved + 1
    /\ outbox' = NoEmit
    /\ statusResponse' = NoResponse
    /\ UNCHANGED <<now, armed, timer, connected, expiries>>
    /\ UNCHANGED Histories

LiveStartServer ==
    /\ ~armed
    /\ resolved = Len(PLAYLIST)
    /\ armed' = TRUE
    /\ timer' = now + TickPeriod
    /\ outbox' = NoEmit
    /\ statusResponse' = NoResponse
    /\ UNCHANGED <<playbackState, now, resolved, connected, expiries>>
    /\ UNCHANGED Histories

LiveTick ==
    /\ armed
    /\ now >= timer
    /\ playbackState' = updatePlaybackState(playbackState, now)
    /\ outbox' = IF Transitioned(playbackState, now)
                 THEN Broadcast(connected, Snapshot(playbackState', now))
                 ELSE NoEmit
    /\ expiries' = IF Transitioned(playbackState, now)
                   THEN Window(Append(expiries,
                            [index |-> playbackState.currentTrackIndex,
                             track |-> playbackState.currentTrack]))
                   ELSE expiries
    /\ timer' = now + TickPeriod
    /\ statusResponse' = NoResponse
    /\ UNCHANGED <<now, resolved, armed, connected>>
    /\ UNCHANGED Histories

LiveConnect(socket) ==
    /\ armed
    /\ socket \notin connected
    /\ connected' = connected \cup {socket}
    /\ outbox' = SendTo(socket, Snapshot(playbackState, now))
    /\ statusResponse' = NoResponse
    /\ UNCHANGED <<playbackState, now, resolved, armed, timer, expiries>>
    /\ UNCHANGED Histories

LiveTogglePlay(socket) ==
    /\ armed
    /\ socket \in connected
    /\ playbackState' = togglePlay(playbackState, now)
    /\ outbox' = Broadcast(connected, Snapshot(playbackState', now))
    /\ statusResponse' = NoResponse
    /\ UNCHANGED <<now, resolved, armed, timer, connected, expiries>>
    /\ UNCHANGED Histories

LiveDisconnect(socket) ==
    /\ socket \in connected
    /\ connected' = connected \ {socket}
    /\ outbox' = NoEmit
    /\ statusResponse' = NoResponse
    /\ UNCHANGED <<playbackState, now, resolved, armed, timer, expiries>>
    /\ UNCHANGED Histories

LiveStatus ==
    /\ armed
    /\ statusResponse' = StatusBody(playbackState, now)
    /\ outbox' = NoEmit
    /\ UNCHANGED <<playbackState, now, resolved, armed, timer, connected,
                   expiries>>
    /\ UNCHANGED Histories

LiveNext ==
    \/ LiveAdvance
    \/ \E outcome \in Outcomes : LiveResolveDuration(outcome)
    \/ LiveStartServer
    \/ LiveTick
    \/ \E socket \in Observers : LiveConnect(socket)
    \/ \E socket \in Observers : LiveTogglePlay(socket)
    \/ \E socket \in Observers : LiveDisconnect(socket)
    \/ LiveStatus

(* The clock advances, a due timer callback runs, and each awaited lookup   *)
(* of startup settles.                                                      *)
Fairness ==
    /\ WF_vars(LiveAdvance)
    /\ WF_vars(LiveTick)
    /\ WF_vars(\E outcome \in Outcomes : LiveResolveDuration(outcome))
    /\ WF_vars(LiveStartServer)

LiveSpec == Init /\ [][LiveNext]_vars /\ Fairness

----------------------------------------------------------------------------
(* Vocabulary of the properties *)

(* The duration of the track a PlaybackState has on air, in 1/Milli         *)
(* seconds: its table entry, or the 2.0 fallback.                           *)
TrackDuration(ps) ==
    IF ps.currentTrack \in DOMAIN ps.trackDurations
    THEN ps.trackDurations[ps.currentTrack]
    ELSE 2 * Milli

(* now - startTime >= duration, for the state the last step started from.   *)
WasExpired(ps) == (now - ps.startTime) * Milli >= TrackDuration(ps) * MsPerSecond

(* Every connected socket got exactly one event from the last handler. *)
OneEventEach == \A o \in connected : Len(outbox[o]) = 1

TickedPlaying == last.op = "tick" /\ last.pre.isPlaying

----------------------------------------------------------------------------
(* C1: a tick of a playing state at a time now with                         *)
(* now - startTime >= duration(currentTrack) moves the index to             *)
(* (index + 1) mod len(Playlist), sets currentTrack to that entry, sets     *)
(* startTime = now and currentPosition = 0, and sends one snapshot with     *)
(* these values to every connected observer; one track per tick, however    *)
(* late the tick is.                                                        *)
C1_ExpiryTransition ==
    (TickedPlaying /\ WasExpired(last.pre)) =>
        /\ playbackState.currentTrackIndex
               = (last.pre.currentTrackIndex + 1) % Len(PLAYLIST)
        /\ playbackState.currentTrack
               = PLAYLIST[playbackState.currentTrackIndex + 1]
        /\ playbackState.startTime = now
        /\ playbackState.currentPosition = 0
        /\ OneEventEach
        /\ \A o \in connected :
               /\ outbox[o][1].currentTrackIndex = playbackState.currentTrackIndex
               /\ outbox[o][1].currentTrack = playbackState.currentTrack
               /\ outbox[o][1].startTime = now
               /\ outbox[o][1].currentPosition = 0

(* The last track of the playlist expired, late, with every observer        *)
(* connected, and the first track is on air again.                          *)
C1_Witness ==
    /\ TickedPlaying
    /\ WasExpired(last.pre)
    /\ (now - last.pre.startTime) * Milli > TrackDuration(last.pre) * MsPerSecond
    /\ last.pre.currentTrackIndex = Len(PLAYLIST) - 1
    /\ playbackState.currentTrackIndex = 0
    /\ connected = Observers

(* C2: a tick of a playing state at a time now >= startTime with            *)
(* now - startTime < duration(currentTrack) leaves                          *)
(* currentPosition = now - startTime, whatever the position was before.     *)
C2_PositionDerivation ==
    (TickedPlaying /\ now >= last.pre.startTime /\ ~WasExpired(last.pre)) =>
        playbackState.currentPosition * MsPerSecond
            = (now - last.pre.startTime) * Milli

(* A tick that found the track still running, after a resume that moved     *)
(* startTime, and later than one period after the position was stored.      *)
C2_Witness ==
    /\ TickedPlaying
    /\ ~WasExpired(last.pre)
    /\ last.pre.startTime > 0
    /\ last.pre.currentPosition > 0
    /\ (playbackState.currentPosition - last.pre.currentPosition) * MsPerSecond
           > TickPeriod * Milli

(* C3: a togglePlay that resumes playback paused at position P sets         *)
(* startTime = now - P, and a tick at the instant of the resume recomputes  *)
(* currentPosition to P, however long the pause lasted.                     *)
C3_ResumePreservesPosition ==
    /\ (last.op = "toggle" /\ playbackState.isPlaying) =>
           /\ pause.resumed
           /\ playbackState.startTime * Milli = now * Milli - pause.pos * MsPerSecond
    /\ (TickedPlaying /\ pause.resumed) =>
           /\ playbackState.currentPosition = pause.pos
           /\ playbackState.currentTrack = last.pre.currentTrack

(* A tick at the instant of a resume, after a pause at a position above 0   *)
(* that lasted some time.                                                   *)
C3_Witness ==
    /\ TickedPlaying
    /\ pause.resumed
    /\ pause.pos > 0
    /\ now > pause.at

(* C4: the connect handler sends exactly one snapshot, to the connecting    *)
(* socket and to no other, and it carries the PlaybackState fields as they  *)
(* are at connect time; nothing is ever sent to a socket that is not        *)
(* connected, so this snapshot is the first event the socket gets.          *)
C4_SnapshotOnConnect ==
    /\ \A o \in Observers \ connected : outbox[o] = << >>
    /\ last.op = "connect" =>
           /\ last.arg \in connected
           /\ Len(outbox[last.arg]) = 1
           /\ \A o \in Observers \ {last.arg} : outbox[o] = << >>
           /\ playbackState = last.pre
           /\ outbox[last.arg][1].currentTrack = playbackState.currentTrack
           /\ outbox[last.arg][1].currentTrackIndex = playbackState.currentTrackIndex
           /\ outbox[last.arg][1].isPlaying = playbackState.isPlaying
           /\ outbox[last.arg][1].startTime = playbackState.startTime
           /\ outbox[last.arg][1].currentPosition = playbackState.currentPosition

(* A socket connected mid-track while another socket was connected.         *)
C4_Witness ==
    /\ last.op = "connect"
    /\ Cardinality(connected) = 2
    /\ playbackState.currentPosition > 0
    /\ playbackState.currentTrackIndex > 0

(* C5: every togglePlay flips isPlaying and sends one snapshot with the     *)
(* new isPlaying to every connected socket, the sender included.            *)
C5_ToggleBroadcast ==
    last.op = "toggle" =>
        /\ playbackState.isPlaying = ~last.pre.isPlaying
        /\ last.arg \in connected
        /\ OneEventEach
        /\ \A o \in connected : outbox[o][1].isPlaying = playbackState.isPlaying

(* A togglePlay with two sockets connected. *)
C5_Witness ==
    /\ last.op = "toggle"
    /\ Cardinality(connected) = 2

(* C6: two togglePlay at the same instant restore isPlaying and leave       *)
(* currentPosition as it was, from a playing and from a paused state.       *)
C6_ToggleTwice ==
    (last.op = "toggle" /\ last.twice) =>
        /\ playbackState.isPlaying = last.base.isPlaying
        /\ playbackState.currentPosition = last.base.currentPosition

(* Two togglePlay in a row on a paused state with a position above 0.       *)
C6_Witness ==
    /\ last.op = "toggle"
    /\ last.twice
    /\ ~last.base.isPlaying
    /\ last.base.currentPosition > 0

(* C7: after len(Playlist) expiries the index and the track are those       *)
(* that were on air before the first of them.                               *)
C7_AdvanceWraps ==
    Len(expiries) = Len(PLAYLIST) =>
        /\ playbackState.currentTrackIndex = expiries[1].index
        /\ playbackState.currentTrack = expiries[1].track

(* A fourth expiry: the last three started from the second entry and have  *)
(* come back to it.                                                         *)
C7_Witness ==
    /\ Len(expiries) = Len(PLAYLIST)
    /\ last.op = "tick"
    /\ playbackState.currentTrackIndex # last.pre.currentTrackIndex
    /\ playbackState.currentTrackIndex = 1
    /\ connected # {}

(* C8: a togglePlay on a playing state changes isPlaying and nothing else,  *)
(* and while the state stays paused every snapshot and status response      *)
(* carries the currentPosition stored at that toggle.                       *)
C8_PauseFrame ==
    /\ (last.op = "toggle" /\ last.pre.isPlaying) =>
           playbackState = [last.pre EXCEPT !.isPlaying = FALSE]
    /\ ~playbackState.isPlaying =>
           /\ playbackState.currentPosition = pause.pos
           /\ \A o \in Observers : \A i \in 1 .. Len(outbox[o]) :
                  outbox[o][i].currentPosition = pause.pos
           /\ statusResponse # NoResponse =>
                  statusResponse.currentPosition = pause.pos

(* A status query of a state paused mid-track some time ago. *)
C8_Witness ==
    /\ ~playbackState.isPlaying
    /\ statusResponse # NoResponse
    /\ pause.pos > 0
    /\ now > pause.at

(* C9: a tick of a paused state changes no field of PlaybackState and sends *)
(* nothing; the track changes only in a tick of a playing state.            *)
C9_PausedTickNoOp ==
    /\ (last.op = "tick" /\ ~last.pre.isPlaying) =>
           /\ playbackState = last.pre
           /\ outbox = [o \in Observers |-> << >>]
    /\ (\/ playbackState.currentTrack # last.pre.currentTrack
        \/ playbackState.currentTrackIndex # last.pre.currentTrackIndex) =>
           TickedPlaying

(* A tick of a paused state, past the time the track would have ended, with *)
(* a socket connected.                                                      *)
C9_Witness ==
    /\ last.op = "tick"
    /\ ~last.pre.isPlaying
    /\ WasExpired(last.pre)
    /\ connected # {}

(* C10, as stated: a failed duration lookup leaves no table entry for the   *)
(* track.                                                                   *)
C10_FailedEntryAbsent ==
    \A track \in failed : track \notin DOMAIN playbackState.trackDurations

(* C10, amended: a failed duration lookup ends the loop iteration normally  *)
(* with the table entry of the track set to 2.0, and a tick of a playing    *)
(* state on such a track switches track exactly when                        *)
(* now - startTime >= 2.0 seconds.                                          *)
C10_FallbackDuration ==
    /\ \A track \in failed :
           /\ track \in DOMAIN playbackState.trackDurations
           /\ playbackState.trackDurations[track] = 2 * Milli
    /\ (last.op = "resolve" /\ last.arg # "ok") =>
           /\ resolved >= 1
           /\ PLAYLIST[resolved] \in failed
           /\ DOMAIN playbackState.trackDurations
                  = DOMAIN last.pre.trackDurations \cup {PLAYLIST[resolved]}
    /\ (TickedPlaying /\ last.pre.currentTrack \in failed) =>
           ((playbackState.currentTrackIndex # last.pre.currentTrackIndex)
                <=> (now - last.pre.startTime >= 2 * MsPerSecond))

(* A track whose lookup failed is switched away from by the tick taken      *)
(* 2.0 seconds after it came on air.                                        *)
C10_Witness ==
    /\ TickedPlaying
    /\ last.pre.currentTrack \in failed
    /\ now - last.pre.startTime = 2 * MsPerSecond
    /\ playbackState.currentTrackIndex # last.pre.currentTrackIndex

(* The set of playlist entries. *)
AllTracks == {PLAYLIST[i] : i \in 1 .. Len(PLAYLIST)}

(* C11: the duration table is filled entry by entry, in playlist order,     *)
(* before anything else happens: until the server is armed there is no      *)
(* tick, connection, toggle, status response or snapshot; every tick,       *)
(* connect and toggle starts from the full table; and only the startup loop *)
(* writes the table.                                                        *)
C11_StartupOrdering ==
    /\ DOMAIN playbackState.trackDurations = {PLAYLIST[i] : i \in 1 .. resolved}
    /\ ~armed =>
           /\ last.op \in {"load", "advance", "resolve"}
           /\ connected = {}
           /\ statusResponse = NoResponse
           /\ \A o \in Observers : outbox[o] = << >>
    /\ last.op \in {"tick", "connect", "toggle"} =>
           DOMAIN last.pre.trackDurations = AllTracks
    /\ \A o \in Observers : \A i \in 1 .. Len(outbox[o]) :
           DOMAIN outbox[o][i].trackDurations = AllTracks
    /\ last.op = "resolve" => ~armed
    /\ last.op # "resolve" =>
           playbackState.trackDurations = last.pre.trackDurations

(* A tick of the armed server, after a startup that took time and in which  *)
(* a lookup failed.                                                         *)
C11_Witness ==
    /\ last.op = "tick"
    /\ DOMAIN last.pre.trackDurations = AllTracks
    /\ failed # {}
    /\ last.pre.startTime = 0
    /\ now > 0

(* C12: a connect, a disconnect and a status query leave PlaybackState as   *)
(* it was, and the status response carries the currentTrack, isPlaying and  *)
(* currentPosition of the PlaybackState.                                    *)
C12_ReadOnlyEvents ==
    /\ last.op \in {"connect", "disconnect", "status"} =>
           playbackState = last.pre
    /\ last.op = "status" =>
           /\ statusResponse.status = "ok"
           /\ statusResponse.currentTrack = playbackState.currentTrack
           /\ statusResponse.isPlaying = playbackState.isPlaying
           /\ statusResponse.currentPosition = playbackState.currentPosition

(* A status query of a playing state whose stored position is behind the    *)
(* clock.                                                                   *)
C12_Witness ==
    /\ last.op = "status"
    /\ playbackState.isPlaying
    /\ playbackState.currentPosition > 0
    /\ (now - playbackState.startTime) * Milli
           > playbackState.currentPosition * MsPerSecond

(* C13: in every state, every snapshot and every status response the index *)
(* is within the playlist and currentTrack is the entry at the index.       *)
C13_TrackIndexConsistent ==
    /\ playbackState.currentTrackIndex \in 0 .. Len(PLAYLIST) - 1
    /\ playbackState.currentTrack = PLAYLIST[playbackState.currentTrackIndex + 1]
    /\ \A o \in Observers : \A i \in 1 .. Len(outbox[o]) :
           /\ outbox[o][i].currentTrackIndex \in 0 .. Len(PLAYLIST) - 1
           /\ outbox[o][i].currentTrack
                  = PLAYLIST[outbox[o][i].currentTrackIndex + 1]
    /\ statusResponse # NoResponse =>
           statusResponse.currentTrack
               = PLAYLIST[playbackState.currentTrackIndex + 1]

(* The snapshot of a transition to the last entry, sent to two sockets.     *)
C13_Witness ==
    /\ last.op = "tick"
    /\ last.pre.currentTrackIndex = 1
    /\ playbackState.currentTrackIndex = 2
    /\ connected = Observers
    /\ \A o \in connected : Len(outbox[o]) = 1

(* C14: in every state, every snapshot and every status response            *)
(* 0 <= currentPosition < duration(currentTrack).                           *)
C14_PositionBound ==
    /\ playbackState.currentPosition >= 0
    /\ playbackState.currentPosition < TrackDuration(playbackState)
    /\ \A o \in Observers : \A i \in 1 .. Len(outbox[o]) :
           /\ outbox[o][i].currentPosition >= 0
           /\ outbox[o][i].currentPosition < TrackDuration(outbox[o][i])
    /\ statusResponse # NoResponse =>
           /\ statusResponse.currentPosition >= 0
           /\ statusResponse.currentPosition < TrackDuration(playbackState)

(* A tick at the very time the track ends, with a socket connected.         *)
C14_Witness ==
    /\ TickedPlaying
    /\ (now - last.pre.startTime) * Milli = TrackDuration(last.pre) * MsPerSecond
    /\ playbackState.currentPosition = 0
    /\ connected # {}

(* C16: a tick of a playing state with now - startTime below the duration   *)
(* changes currentPosition and no other field, and sends nothing.           *)
C16_NonExpiryTickFrame ==
    (TickedPlaying /\ ~WasExpired(last.pre)) =>
        /\ playbackState
               = [last.pre EXCEPT !.currentPosition = playbackState.currentPosition]
        /\ \A o \in Observers : outbox[o] = << >>

(* A tick that moved the position of a running track with two sockets       *)
(* connected.                                                               *)
C16_Witness ==
    /\ TickedPlaying
    /\ ~WasExpired(last.pre)
    /\ connected = Observers
    /\ playbackState.currentPosition > last.pre.currentPosition

(* C15, as stated: once the timer and the listener are armed, in every      *)
(* playing state (now - startTime) - currentPosition is between 0 and one   *)
(* tick period, and so is serverTime - startTime - currentPosition in every *)
(* snapshot sent while playing.  Stated for the states in which no tick is  *)
(* overdue, the states a punctual timer allows.                             *)
C15_PositionTracksClock ==
    (armed /\ playbackState.isPlaying /\ now <= timer) =>
        /\ (now - playbackState.startTime) * Milli
               >= playbackState.currentPosition * MsPerSecond
        /\ (now - playbackState.startTime) * Milli
               - playbackState.currentPosition * MsPerSecond
                   <= TickPeriod * Milli
        /\ \A o \in Observers : \A i \in 1 .. Len(outbox[o]) :
               (outbox[o][i].serverTime - outbox[o][i].startTime) * Milli
                   - outbox[o][i].currentPosition * MsPerSecond
                       \in 0 .. TickPeriod * Milli

(* The four fields an observer converges on. *)
Shown(ps) ==
    [currentTrack      |-> ps.currentTrack,
     currentTrackIndex |-> ps.currentTrackIndex,
     isPlaying         |-> ps.isPlaying,
     startTime         |-> ps.startTime]

(* C17: the last snapshot delivered to each connected socket has the        *)
(* currentTrack, currentTrackIndex, isPlaying and startTime of the          *)
(* PlaybackState, and a step that changes one of the four sends a snapshot  *)
(* to every connected socket.                                               *)
C17_ObserversConverge ==
    /\ \A o \in connected : latest[o] = Shown(playbackState)
    /\ Shown(playbackState) # Shown(last.pre) =>
           \A o \in connected :
               /\ Len(outbox[o]) = 1
               /\ outbox[o][1].currentTrack = playbackState.currentTrack
               /\ outbox[o][1].currentTrackIndex = playbackState.currentTrackIndex
               /\ outbox[o][1].isPlaying = playbackState.isPlaying
               /\ outbox[o][1].startTime = playbackState.startTime

(* A resume that moved startTime, with two sockets connected, one of which  *)
(* connected on an earlier track.                                           *)
C17_Witness ==
    /\ last.op = "toggle"
    /\ playbackState.isPlaying
    /\ playbackState.startTime # last.pre.startTime
    /\ playbackState.currentTrackIndex > 0
    /\ connected = Observers

(* C18, as stated: at every transition made by a tick, the time the track   *)
(* that ends has spent playing since it came on air is at least its         *)
(* duration and less than its duration plus one interval between ticks (the *)
(* tick period, plus the lateness the timer is allowed).                    *)
C18_PlaysForDuration ==
    (/\ TickedPlaying
     /\ playbackState.currentTrackIndex # last.pre.currentTrackIndex) =>
        /\ last.played * Milli >= TrackDuration(last.pre) * MsPerSecond
        /\ last.played * Milli
               < TrackDuration(last.pre) * MsPerSecond
                     + (TickPeriod + MaxLate) * Milli

(* C19: with a fair timer and an advancing clock, a track on air in a state *)
(* from which isPlaying stays true is eventually replaced by the next       *)
(* entry, so that every entry is on air again and again; and no step taken  *)
(* in a paused state changes the track.                                     *)
C19_KeepsAdvancing ==
    /\ \A i \in 0 .. Len(PLAYLIST) - 1 :
           []((playbackState.currentTrackIndex = i /\ []playbackState.isPlaying)
                  => <>(playbackState.currentTrackIndex = (i + 1) % Len(PLAYLIST)))
    /\ \A i \in 0 .. Len(PLAYLIST) - 1 :
           (<>[]playbackState.isPlaying)
               => []<>(playbackState.currentTrack = PLAYLIST[i + 1])
    /\ [][~playbackState.isPlaying =>
              /\ playbackState'.currentTrackIndex = playbackState.currentTrackIndex
              /\ playbackState'.currentTrack = playbackState.currentTrack]_vars

(* The playlist has gone round and the first entry is playing again, some   *)
(* time into the track.                                                     *)
C19_Witness ==
    /\ Len(expiries) = Len(PLAYLIST)
    /\ expiries[Len(PLAYLIST)].index = Len(PLAYLIST) - 1
    /\ playbackState.currentTrackIndex = 0
    /\ playbackState.isPlaying
    /\ playbackState.startTime < now
    /\ playbackState.currentPosition > 0

====
